---- MODULE Spec2Model ----
(***************************************************************************)
(* State-machine model of song_search_app.py: a Streamlit script that      *)
(* loads a table of song performances (cached for an hour), searches it by *)
(* simplified / traditional title, suggests titles, shows the performances *)
(* of one selected song and ranks all songs by number of performances.     *)
(*                                                                         *)
(* A data frame is a record [rows, sStr, tStr]: rows is the sequence of    *)
(* its rows (each keeps its index label idx), sStr / tStr tell whether the *)
(* 'Simplified' / 'Traditional' column holds strings (object dtype) so     *)
(* that the .str accessor works, or is an all-empty float64 column on      *)
(* which .str raises.  A title is a sequence of characters.               *)
(***************************************************************************)
EXTENDS Integers, Sequences, FiniteSets, TLC

\* ---------------------------------------------------------------- bounds
MaxRows == 3        \* rows of a source table under SpecCore
MaxSrcRows == 2     \* rows of a source table under Spec
MaxTicks == 3       \* clock ticks a behaviour of Spec may take

\* ------------------------------------------------------ program constants
TTL == 3600             \* @st.cache_data(ttl=3600)
TickSeconds == 1800     \* seconds per clock tick of the model
WindowYears == 5        \* current_year - 5
MaxSuggestions == 10    \* suggestions[:10]

None == <<"None">>      \* key not in st.session_state
Absent == <<"NaN">>     \* an empty spreadsheet cell (a title is a sequence too)
NaT == <<>>             \* a date that did not parse (a date is <<y, m, d>>)

\* ------------------------------------------------------------ input sets
\* a Chinese character is written as its pinyin syllable: "en" is 恩,
\* "dian" 典, "ping" 平, "an" 安, "ye" 夜, "ai" 爱 and "AI" its traditional
\* form 愛; "a", "b", "A", "B" are Latin letters, "." and "(" themselves
EnDian == <<"en", "dian">>
PingAnYe == <<"ping", "an", "ye">>
EnAiS == <<"en", "ai">>
EnAiT == <<"en", "AI">>
Ab == <<"A", "b">>

RawRow(y, m, d, s, t) ==
  [Year |-> y, Month |-> m, Day |-> d, Simplified |-> s, Traditional |-> t]

\* rows every one of which load_data keeps when the year read is 2027
CoreRows ==
  { RawRow(2023, 1, 1, EnDian, EnDian),
    RawRow(2023, 6, 1, EnDian, EnDian),
    RawRow(2022, 12, 24, PingAnYe, Absent),
    RawRow(2023, 6, 1, Absent, EnDian),
    RawRow(2023, 1, 1, EnAiS, EnAiT),
    RawRow(2024, 2, 29, Ab, Absent) }

\* rows of the source under Spec: two with a date that does not exist,
\* one of 2022, which is inside the window in 2027 and outside in 2028
SrcRows ==
  { RawRow(2023, 1, 1, EnDian, EnDian),
    RawRow(2022, 12, 24, PingAnYe, Absent),
    RawRow(2023, 2, 30, EnDian, EnDian),
    RawRow(2023, 13, 1, Ab, Absent) }

TablesOver(rows, n) == UNION { [1..k -> rows] : k \in 0..n }

CurrentYears == {2027, 2028}

\* the year read by the load that filled the cache SpecCore starts with
CoreYears == {2027}

\* what the user can type in the text box ("" is <<>>)
Terms == { <<>>, <<"en">>, EnDian, <<"a">>, <<"A">>, <<".">>, <<"(">> }

LoadErrors == {"unreachable", "malformed", "missing column"}

\* ------------------------------------------------------------- sequences
RECURSIVE Pick(_, _, _)
\* the subsequence of s at the positions in keep, from position i on
Pick(s, keep, i) ==
  IF i > Len(s) THEN <<>>
  ELSE (IF i \in keep THEN <<s[i]>> ELSE <<>>) \o Pick(s, keep, i + 1)

Range(s) == { s[i] : i \in 1..Len(s) }

Min(a, b) == IF a < b THEN a ELSE b

\* ------------------------------------------------------------ characters
Upper(c) == CASE c = "a" -> "A" [] c = "b" -> "B" [] OTHER -> c
Lower(c) == CASE c = "A" -> "a" [] c = "B" -> "b" [] OTHER -> c

UpperStr(s) == [i \in 1..Len(s) |-> Upper(s[i])]

\* Python's  p in x  on strings
IsSubstr(p, x) ==
  \E i \in 0..(Len(x) - Len(p)) : \A j \in 1..Len(p) : p[j] = x[i + j]

\* re.compile(pat): of the characters of the model "(" alone is an
\* unbalanced parenthesis, which raises re.error
RegexCompiles(pat) == \A j \in 1..Len(pat) : pat[j] # "("

\* one pattern character against one text character under re.IGNORECASE
RegexCharMatch(pc, c) == pc = "." \/ Lower(pc) = Lower(c)

\* re.search(pat, x, flags=re.IGNORECASE) finds a match
RegexSearch(pat, x) ==
  \E i \in 0..(Len(x) - Len(pat)) :
    \A j \in 1..Len(pat) : RegexCharMatch(pat[j], x[i + j])

\* Series.str.contains(pat, case=False, na=False, regex=False) on one cell:
\* pat.upper() in x.upper(), False for an empty cell
str_contains_literal(x, pat) ==
  x # Absent /\ IsSubstr(UpperStr(pat), UpperStr(x))

\* Series.str.contains(pat, case=False, na=False) on one cell: regex=True
\* is the default, so pat is a regular expression
str_contains_regex(x, pat) ==
  x # Absent /\ RegexSearch(pat, x)

\* ----------------------------------------------------------------- dates
IsLeap(y) == (y % 4 = 0 /\ y % 100 # 0) \/ y % 400 = 0

DaysInMonth(y, m) ==
  IF m = 2 THEN (IF IsLeap(y) THEN 29 ELSE 28)
  ELSE IF m \in {4, 6, 9, 11} THEN 30 ELSE 31

\* pd.to_datetime(str(y)-str(m)-str(d), format='%Y-%m-%d', errors='coerce')
to_datetime(y, m, d) ==
  IF m \in 1..12 /\ d >= 1 /\ d <= DaysInMonth(y, m)
  THEN <<y, m, d>> ELSE NaT

\* date a is later than date b
DateAfter(a, b) ==
  \/ a[1] > b[1]
  \/ a[1] = b[1] /\ a[2] > b[2]
  \/ a[1] = b[1] /\ a[2] = b[2] /\ a[3] > b[3]

\* ------------------------------------------------------------- load_data
EmptyFrame == [rows |-> <<>>, sStr |-> FALSE, tStr |-> FALSE]

\* row i of the source with its index label and the composed date column
WithDate(table, i) ==
  [idx |-> i, Year |-> table[i].Year, Month |-> table[i].Month,
   Day |-> table[i].Day, Simplified |-> table[i].Simplified,
   Traditional |-> table[i].Traditional,
   PerfDate |-> to_datetime(table[i].Year, table[i].Month, table[i].Day)]

\* mutant: the 5-year filter compares the wrong way round
RetainedOlder(r, current_year) ==
  r.PerfDate # NaT /\ r.PerfDate[1] <= current_year - WindowYears

\* dropna(subset=[date column]) then dt.year >= current_year - 5
Retained(r, current_year) ==
  r.PerfDate # NaT /\ r.PerfDate[1] >= current_year - WindowYears

\* the body of load_data's try block on a table that was read
load_data(table, current_year) ==
  LET dated == [i \in 1..Len(table) |-> WithDate(table, i)]
      keep == { i \in 1..Len(table) : Retained(dated[i], current_year) }
  IN [rows |-> Pick(dated, keep, 1),
      sStr |-> \E i \in 1..Len(table) : table[i].Simplified # Absent,
      tStr |-> \E i \in 1..Len(table) : table[i].Traditional # Absent]

\* mutant: an empty frame is not noticed
df_empty_never(frame) == FALSE

\* DataFrame.empty
df_empty(frame) == Len(frame.rows) = 0

\* ---------------------------------------------------------- search_songs
\* two rows hold the same values in every column (the index is no column)
SameValues(a, b) ==
  /\ a.Year = b.Year /\ a.Month = b.Month /\ a.Day = b.Day
  /\ a.Simplified = b.Simplified /\ a.Traditional = b.Traditional
  /\ a.PerfDate = b.PerfDate

\* mutant: the concatenation is returned as it is
drop_duplicates_none(rows) == rows

\* DataFrame.drop_duplicates(): of rows with equal values the first is kept
drop_duplicates(rows) ==
  Pick(rows,
       { i \in 1..Len(rows) : \A j \in 1..(i - 1) : ~SameValues(rows[j], rows[i]) },
       1)

\* search_songs: the rows matching in either title column, without duplicates
search_songs(frame, search_term) ==
  IF ~frame.sStr \/ ~frame.tStr
  THEN <<>>     \* .str on a float64 column raises; except: pd.DataFrame()
  ELSE
    LET rows == frame.rows
        simplified_matches ==
          Pick(rows, { i \in 1..Len(rows) :
                       str_contains_literal(rows[i].Simplified, search_term) }, 1)
        traditional_matches ==
          Pick(rows, { i \in 1..Len(rows) :
                       str_contains_literal(rows[i].Traditional, search_term) }, 1)
    IN drop_duplicates(simplified_matches \o traditional_matches)

\* ------------------------------------------ get_autocomplete_suggestions
\* the names that can be suggested: set(simplified + traditional matches)
suggestion_pool(frame, partial_term) ==
  IF ~frame.sStr \/ ~frame.tStr \/ ~RegexCompiles(partial_term)
  THEN {}       \* except: return []
  ELSE
    LET rows == frame.rows
    IN { rows[i].Simplified : i \in { k \in 1..Len(rows) :
           str_contains_regex(rows[k].Simplified, partial_term) } }
       \cup
       { rows[i].Traditional : i \in { k \in 1..Len(rows) :
           str_contains_regex(rows[k].Traditional, partial_term) } }

\* list(set(...))[:10]: the set's iteration order is arbitrary, so any 10
\* names of the pool can be the ones returned; the list is kept as the set
\* of its entries
get_autocomplete_suggestions(frame, partial_term) ==
  LET pool == suggestion_pool(frame, partial_term)
  IN { sub \in SUBSET pool :
         Cardinality(sub) = Min(MaxSuggestions, Cardinality(pool)) }


\* ------------------------------------------------- selected-song details
RECURSIVE unique(_)
\* Series.unique(): the values in order of first appearance
unique(s) ==
  IF s = <<>> THEN <<>>
  ELSE LET init == unique(SubSeq(s, 1, Len(s) - 1))
       IN IF s[Len(s)] \in Range(init) THEN init ELSE Append(init, s[Len(s)])

\* pd.concat([results['Simplified'], results['Traditional']]).dropna().unique()
unique_songs(results) ==
  LET both == [i \in 1..Len(results) |-> results[i].Simplified]
              \o [i \in 1..Len(results) |-> results[i].Traditional]
  IN unique(Pick(both, { i \in 1..Len(both) : both[i] # Absent }, 1))

\* the rows shown for selected_song (lines 124-134)
song_data(results, selected_song) ==
  IF Len(unique_songs(results)) > 1
  THEN IF \E i \in 1..Len(results) : results[i].Simplified = selected_song
       THEN Pick(results, { i \in 1..Len(results) :
                            results[i].Simplified = selected_song }, 1)
       ELSE Pick(results, { i \in 1..Len(results) :
                            results[i].Traditional = selected_song }, 1)
  ELSE results

\* ------------------------------------------------------------- sorting
\* pypinyin.lazy_pinyin(c, style=FIRST_LETTER): the first letter of a
\* Chinese character's syllable; any other character is returned as it is
first_letter(c) ==
  CASE c = "en" -> "e" [] c = "dian" -> "d" [] c = "ping" -> "p"
    [] c = "an" -> "a" [] c = "ye" -> "y" [] c = "ai" -> "a"
    [] c = "AI" -> "a" [] OTHER -> c

\* ''.join(initials).lower()
get_pinyin_initial(text) == [i \in 1..Len(text) |-> Lower(first_letter(text[i]))]

\* code point order of the letters a key can hold
Ord(c) ==
  CASE c = "(" -> 40 [] c = "." -> 46 [] c = "a" -> 97 [] c = "b" -> 98
    [] c = "d" -> 100 [] c = "e" -> 101 [] c = "p" -> 112 [] c = "y" -> 121
    [] OTHER -> 0

RECURSIVE StrLess(_, _)
\* Python's  a < b  on strings
StrLess(a, b) ==
  IF b = <<>> THEN FALSE
  ELSE IF a = <<>> THEN TRUE
  ELSE IF Ord(a[1]) # Ord(b[1]) THEN Ord(a[1]) < Ord(b[1])
  ELSE StrLess(Tail(a), Tail(b))

\* x must come before y under the ordering by
Before(x, y, by) ==
  CASE by = "count desc" -> x.count > y.count
    [] by = "count asc" -> x.count < y.count
    [] by = "key asc" -> StrLess(x.key, y.key)
    [] by = "date desc" -> DateAfter(x.PerfDate, y.PerfDate)

RECURSIVE sort_values(_, _)
\* DataFrame.sort_values: a stable insertion sort (the order of ties is
\* not fixed by pandas' default quicksort; no property here reads it)
sort_values(s, by) ==
  IF s = <<>> THEN <<>>
  ELSE LET init == sort_values(SubSeq(s, 1, Len(s) - 1), by)
           x == s[Len(s)]
           k == Cardinality({ i \in 1..Len(init) : ~Before(x, init[i], by) })
       IN SubSeq(init, 1, k) \o <<x>> \o SubSeq(init, k + 1, Len(init))


\* --------------------------------------------------------------- ranking
\* mutant: a row without a traditional name is not counted
counted_rows_both_names(rows) ==
  Pick(rows, { i \in 1..Len(rows) :
               rows[i].Simplified # Absent /\ rows[i].Traditional # Absent }, 1)

\* the rows value_counts() counts: those with a simplified name (dropna)
counted_rows(rows) ==
  Pick(rows, { i \in 1..Len(rows) : rows[i].Simplified # Absent }, 1)

\* df['Simplified'].value_counts().reset_index(): one row per distinct
\* non-empty simplified name with the number of rows carrying it, the
\* most frequent first
value_counts(rows) ==
  LET named == counted_rows(rows)
      names == unique([i \in 1..Len(named) |-> named[i].Simplified])
  IN sort_values(
       [k \in 1..Len(names) |->
          [name |-> names[k],
           count |-> Cardinality({ i \in 1..Len(named) :
                                   named[i].Simplified = names[k] })]],
       "count desc")

FREQUENCY_DESC == "count desc"
KEY_ASC == "key asc"
SortOptions == {FREQUENCY_DESC, KEY_ASC}

\* mutant: the frequency ordering sorts ascending
sidebar_stats_ascending(frame, sort_option) ==
  LET counted == value_counts(frame.rows)
      keyed == [k \in 1..Len(counted) |->
                  [name |-> counted[k].name, count |-> counted[k].count,
                   key |-> get_pinyin_initial(counted[k].name)]]
  IN IF sort_option = FREQUENCY_DESC
     THEN sort_values(keyed, "count asc")
     ELSE sort_values(keyed, KEY_ASC)

\* song_stats of the sidebar (lines 192-200)
sidebar_stats(frame, sort_option) ==
  LET counted == value_counts(frame.rows)
      keyed == [k \in 1..Len(counted) |->
                  [name |-> counted[k].name, count |-> counted[k].count,
                   key |-> get_pinyin_initial(counted[k].name)]]
  IN IF sort_option = FREQUENCY_DESC
     THEN sort_values(keyed, FREQUENCY_DESC)
     ELSE sort_values(keyed, KEY_ASC)

\* song_stats of the full-screen view (lines 231-249)
fullscreen_stats(frame, sort_option_full) ==
  LET counted == value_counts(frame.rows)
      keyed == [k \in 1..Len(counted) |->
                  [name |-> counted[k].name, count |-> counted[k].count,
                   key |-> get_pinyin_initial(counted[k].name)]]
  IN IF sort_option_full = FREQUENCY_DESC
     THEN sort_values(counted, FREQUENCY_DESC)
     ELSE sort_values(keyed, KEY_ASC)

\* ----------------------------------------------------------------- state
VARIABLES
  cache,    \* the entry st.cache_data holds for load_data(): the value
            \* returned (df), the st.error it recorded (error) and when it
            \* was stored (at); year keeps the year datetime.now() gave
            \* the call, for the properties
  now,      \* the clock, in ticks of TickSeconds
  session,  \* st.session_state: the text box and the two keys the script sets
  event,    \* the widget whose use started the running pass
  pc,       \* where the running pass stands
  run       \* the module-level variables of the running pass and its output

vars == <<cache, now, session, event, pc, run>>

NoEvent == [kind |-> "none", song |-> None]

NoEntry ==
  [present |-> FALSE, df |-> EmptyFrame, error |-> "", year |-> 0, at |-> 0]

NewSessionState ==
  [search |-> <<>>, selected_song |-> None, show_fullscreen_stats |-> FALSE]

Fresh ==
  [df |-> EmptyFrame, out |-> {}, search_term |-> <<>>, suggestions |-> {},
   searched |-> FALSE, results |-> <<>>, selected_song |-> None,
   song_data |-> <<>>, performance_count |-> 0, dates |-> <<>>,
   sort_option |-> "", song_stats |-> <<>>,
   sort_option_full |-> "", full_stats |-> <<>>]

SrcTables == TablesOver(SrcRows, MaxSrcRows)
CoreTables == TablesOver(CoreRows, MaxRows)

\* a new browser session runs the script for the first time; nothing is cached
Init ==
  /\ cache = NoEntry
  /\ now = 0
  /\ session = NewSessionState
  /\ event = NoEvent
  /\ pc = "load"
  /\ run = Fresh

\* the same with a table already loaded and cached
CoreInit ==
  /\ \E table \in CoreTables, y \in CoreYears :
       cache = [present |-> TRUE, df |-> load_data(table, y), error |-> "",
                year |-> y, at |-> 0]
  /\ now = 0
  /\ session = NewSessionState
  /\ event = NoEvent
  /\ pc = "load"
  /\ run = Fresh


\* --------------------------------------------------------------- the pass
CacheFresh == cache.present /\ (now - cache.at) * TickSeconds < TTL

\* what a pass shows and holds right after  df = load_data()
Loaded(entry) ==
  [Fresh EXCEPT !.df = entry.df,
                !.out = IF entry.error # "" THEN {"error"} ELSE {}]

\* time passes before the script calls load_data()
Tick ==
  /\ pc = "load"
  /\ now < MaxTicks
  /\ now' = now + 1
  /\ UNCHANGED <<cache, session, event, pc, run>>

\* line 59, cache hit: the cached value is returned and the st.error the
\* cached call made, if any, is replayed
LoadCached ==
  /\ pc = "load"
  /\ CacheFresh
  /\ run' = Loaded(cache)
  /\ pc' = "check"
  /\ UNCHANGED <<cache, now, session, event>>

\* lines 16-49, cache miss, read_excel or a date column raises: st.error
\* and an empty frame, which is what the decorator caches
LoadFails ==
  /\ pc = "load"
  /\ ~CacheFresh
  /\ \E e \in LoadErrors :
       cache' = [present |-> TRUE, df |-> EmptyFrame, error |-> e,
                 year |-> 0, at |-> now]
  /\ run' = Loaded(cache')
  /\ pc' = "check"
  /\ UNCHANGED <<now, session, event>>

\* lines 16-46, cache miss, the table is read
LoadReads ==
  /\ pc = "load"
  /\ ~CacheFresh
  /\ \E table \in SrcTables, current_year \in CurrentYears :
       cache' = [present |-> TRUE, df |-> load_data(table, current_year),
                 error |-> "", year |-> current_year, at |-> now]
  /\ run' = Loaded(cache')
  /\ pc' = "check"
  /\ UNCHANGED <<now, session, event>>

\* lines 62-63: st.stop() on an empty frame
CheckEmpty ==
  /\ pc = "check"
  /\ pc' = IF df_empty(run.df) THEN "stopped" ELSE "suggest"
  /\ event' = IF df_empty(run.df) THEN NoEvent ELSE event
  /\ UNCHANGED <<cache, now, session, run>>

\* the suggestion lists the pass can get for the text in the box
PassSuggestions ==
  IF session.search # <<>>
  THEN get_autocomplete_suggestions(run.df, session.search)
  ELSE {{}}

\* lines 92-107, no suggestion button of this pass was clicked
Suggest ==
  /\ pc = "suggest"
  /\ \E suggestions \in PassSuggestions :
       /\ ~(event.kind = "suggest" /\ event.song \in suggestions)
       /\ run' = [run EXCEPT !.search_term = session.search,
                             !.suggestions = suggestions,
                             !.out = @ \cup {"input"} \cup
                                     (IF suggestions # {} THEN {"suggestions"} ELSE {})]
  /\ pc' = "consume"
  /\ UNCHANGED <<cache, now, session, event>>

\* lines 105-107: the clicked button is drawn again, returns True, the song
\* is stored and st.rerun() starts the script again
SuggestClicked ==
  /\ pc = "suggest"
  /\ event.kind = "suggest"
  /\ \E suggestions \in PassSuggestions : event.song \in suggestions
  /\ session' = [session EXCEPT !.selected_song = event.song]
  /\ event' = NoEvent
  /\ pc' = "load"
  /\ run' = Fresh
  /\ UNCHANGED <<cache, now>>

\* mutant: the stored song is used but the key is not deleted
consumed_session_kept(s) == s

\* line 112: del st.session_state['selected_song']
consumed_session(s) == [s EXCEPT !.selected_song = None]

\* lines 110-112
Consume ==
  /\ pc = "consume"
  /\ IF session.selected_song # None
     THEN /\ run' = [run EXCEPT !.search_term = session.selected_song]
          /\ session' = consumed_session(session)
     ELSE UNCHANGED <<run, session>>
  /\ pc' = "search"
  /\ UNCHANGED <<cache, now, event>>

\* lines 115-119 and 157-158
Search ==
  /\ pc = "search"
  /\ IF run.search_term # <<>>
     THEN LET results == search_songs(run.df, run.search_term)
          IN /\ run' = [run EXCEPT !.searched = TRUE,
                                   !.results = results,
                                   !.out = IF results = <<>>
                                           THEN @ \cup {"warning"} ELSE @]
             /\ pc' = IF results = <<>> THEN "sidebar" ELSE "detail"
     ELSE /\ pc' = "sidebar"
          /\ UNCHANGED run
  /\ UNCHANGED <<cache, now, session, event>>

\* lines 121-156: the select box offers unique_songs when there are several
Detail ==
  /\ pc = "detail"
  /\ LET names == unique_songs(run.results)
     IN \E selected_song \in (IF Len(names) > 1 THEN Range(names) ELSE {names[1]}) :
          LET data == song_data(run.results, selected_song)
              sorted == sort_values(data, "date desc")
          IN run' = [run EXCEPT !.selected_song = selected_song,
                                !.song_data = data,
                                !.performance_count = Len(data),
                                !.dates = [i \in 1..Len(sorted) |-> sorted[i].PerfDate],
                                !.out = @ \cup {"success"}]
  /\ pc' = "sidebar"
  /\ UNCHANGED <<cache, now, session, event>>

\* lines 161-219
Sidebar ==
  /\ pc = "sidebar"
  /\ session' = IF event.kind = "full"
                THEN [session EXCEPT !.show_fullscreen_stats = TRUE]
                ELSE session
  /\ \E sort_option \in SortOptions :
       run' = [run EXCEPT !.sort_option = sort_option,
                          !.song_stats = sidebar_stats(run.df, sort_option),
                          !.out = @ \cup {"sidebar"}]
  /\ pc' = "fullscreen"
  /\ UNCHANGED <<cache, now, event>>

\* line 222, the flag is not set: the pass ends
FullscreenOff ==
  /\ pc = "fullscreen"
  /\ ~session.show_fullscreen_stats
  /\ pc' = "idle"
  /\ event' = NoEvent
  /\ UNCHANGED <<cache, now, session, run>>

\* lines 226-228: the return button was clicked
FullscreenBack ==
  /\ pc = "fullscreen"
  /\ session.show_fullscreen_stats
  /\ event.kind = "back"
  /\ session' = [session EXCEPT !.show_fullscreen_stats = FALSE]
  /\ event' = NoEvent
  /\ pc' = "load"
  /\ run' = Fresh
  /\ UNCHANGED <<cache, now>>

\* lines 223-266: the full-screen table, then the pass ends
FullscreenStats ==
  /\ pc = "fullscreen"
  /\ session.show_fullscreen_stats
  /\ event.kind # "back"
  /\ \E sort_option_full \in SortOptions :
       run' = [run EXCEPT !.sort_option_full = sort_option_full,
                          !.full_stats = fullscreen_stats(run.df, sort_option_full),
                          !.out = @ \cup {"fullscreen"}]
  /\ pc' = "idle"
  /\ event' = NoEvent
  /\ UNCHANGED <<cache, now, session>>

\* ------------------------------------------------------------- the user
StartPass(e) ==
  /\ event' = e
  /\ pc' = "load"
  /\ run' = Fresh
  /\ UNCHANGED <<cache, now>>

\* new text in the text box
TypeTerm ==
  /\ pc = "idle"
  /\ \E term \in Terms \ {session.search} :
       session' = [session EXCEPT !.search = term]
  /\ StartPass(NoEvent)

\* a click on one of the suggestion buttons on the page
ClickSuggestion ==
  /\ pc = "idle"
  /\ \E song \in run.suggestions : StartPass([kind |-> "suggest", song |-> song])
  /\ UNCHANGED session

\* a click on the sidebar's full-screen button
ClickFullscreen ==
  /\ pc = "idle"
  /\ StartPass([kind |-> "full", song |-> None])
  /\ UNCHANGED session

\* a click on the return button of the full-screen view
ClickReturn ==
  /\ pc = "idle"
  /\ "fullscreen" \in run.out
  /\ StartPass([kind |-> "back", song |-> None])
  /\ UNCHANGED session

\* another choice in the select box or in a radio group
ChangeWidget ==
  /\ pc = "idle"
  /\ StartPass(NoEvent)
  /\ UNCHANGED session

\* the page is opened again: a new session, the same process and cache
NewSession ==
  /\ pc \in {"idle", "stopped"}
  /\ session' = NewSessionState
  /\ StartPass(NoEvent)

Next ==
  \/ Tick \/ LoadFails \/ LoadReads
  \/ LoadCached \/ CheckEmpty \/ Suggest \/ SuggestClicked \/ Consume
  \/ Search \/ Detail \/ Sidebar
  \/ FullscreenOff \/ FullscreenBack \/ FullscreenStats
  \/ TypeTerm \/ ClickSuggestion \/ ClickFullscreen \/ ClickReturn
  \/ ChangeWidget \/ NewSession

Spec == Init /\ [][Next]_vars

CoreNext ==
  \/ LoadCached \/ CheckEmpty \/ Suggest \/ SuggestClicked \/ Consume
  \/ Search \/ Detail \/ Sidebar
  \/ FullscreenOff \/ FullscreenBack \/ FullscreenStats
  \/ TypeTerm \/ ClickSuggestion \/ ClickFullscreen \/ ClickReturn
  \/ ChangeWidget

SpecCore == CoreInit /\ [][CoreNext]_vars


\* ------------------------------------------------------------ properties
\* x, a cell, contains the term t as a literal substring when letter case
\* is ignored
ContainsFold(x, t) ==
  /\ x # Absent
  /\ \E i \in 0..(Len(x) - Len(t)) : \A j \in 1..Len(t) : Lower(t[j]) = Lower(x[i + j])

SameFold(t, u) ==
  Len(t) = Len(u) /\ \A j \in 1..Len(t) : Lower(t[j]) = Lower(u[j])

Ids(rows) == { rows[i].idx : i \in 1..Len(rows) }

\* the index labels of the rows of the frame that match term in a column
MatchingIds(frame, term) ==
  { frame.rows[i].idx : i \in { k \in 1..Len(frame.rows) :
      \/ ContainsFold(frame.rows[k].Simplified, term)
      \/ ContainsFold(frame.rows[k].Traditional, term) } }

\* C1: once a pass has searched a store with text in both name columns
\* for a term, the result holds exactly the rows of the store whose
\* simplified or traditional name contains the term literally, case
\* ignored, and any term differing only in letter case gives the same set
\* of rows
C1_SearchExact ==
  (run.searched /\ run.df.sStr /\ run.df.tStr) =>
    /\ Ids(run.results) = MatchingIds(run.df, run.search_term)
    /\ \A other \in Terms :
         SameFold(other, run.search_term) =>
           Ids(search_songs(run.df, other)) = Ids(run.results)

\* C9: the result of a search holds no row of the store twice
C9_NoDuplicateRecords ==
  run.searched =>
    \A i, j \in 1..Len(run.results) :
      i # j => run.results[i].idx # run.results[j].idx

\* C9 witness: a search whose term matched one row in both columns and
\* another row besides
C9_Witness ==
  /\ run.searched
  /\ Len(run.results) >= 2
  /\ \E i \in 1..Len(run.results) :
       /\ ContainsFold(run.results[i].Simplified, run.search_term)
       /\ ContainsFold(run.results[i].Traditional, run.search_term)

\* the names found in the two title columns of the frame
NamesOf(frame) ==
  ({ frame.rows[i].Simplified : i \in 1..Len(frame.rows) }
   \cup { frame.rows[i].Traditional : i \in 1..Len(frame.rows) }) \ {Absent}

\* C5: the suggestions for the text in the box are at most 10 names, each
\* a simplified or traditional name of some row that contains the text as
\* a substring, case ignored
C5_SuggestionsMatch ==
  (pc = "consume" /\ session.search # <<>>) =>
    /\ Cardinality(run.suggestions) <= MaxSuggestions
    /\ \A name \in run.suggestions :
         name \in NamesOf(run.df) /\ ContainsFold(name, session.search)

\* the rows of results that carry the name in either title column
EitherColumn(results, name) ==
  { results[i].idx : i \in { k \in 1..Len(results) :
      results[k].Simplified = name \/ results[k].Traditional = name } }

Descending(dates) ==
  \A i \in 1..(Len(dates) - 1) : ~DateAfter(dates[i + 1], dates[i])

\* C4: the rows shown for the chosen name are exactly the rows of the
\* search result with that simplified or that traditional name, the count
\* shown is their number, and the dates are listed latest first
C4_DetailEitherColumn ==
  "success" \in run.out =>
    /\ Ids(run.song_data) = EitherColumn(run.results, run.selected_song)
    /\ run.performance_count = Cardinality(EitherColumn(run.results, run.selected_song))
    /\ Descending(run.dates)


RECURSIVE SumCounts(_)
SumCounts(stats) ==
  IF stats = <<>> THEN 0 ELSE stats[1].count + SumCounts(Tail(stats))

RowsNamed(frame, name) ==
  { i \in 1..Len(frame.rows) : frame.rows[i].Simplified = name }

\* stats is the ranking by frequency of the frame
RankedByFrequency(stats, frame) ==
  /\ { stats[k].name : k \in 1..Len(stats) }
       = { frame.rows[i].Simplified : i \in 1..Len(frame.rows) } \ {Absent}
  /\ \A k, l \in 1..Len(stats) : k # l => stats[k].name # stats[l].name
  /\ \A k \in 1..Len(stats) :
       stats[k].count = Cardinality(RowsNamed(frame, stats[k].name))
  /\ \A k \in 1..(Len(stats) - 1) : stats[k].count >= stats[k + 1].count
  /\ SumCounts(stats)
       = Cardinality({ i \in 1..Len(frame.rows) : frame.rows[i].Simplified # Absent })

\* C6: a ranking by frequency, in the sidebar or full screen, has one entry
\* per distinct simplified name present, counting the rows that carry it,
\* in non-increasing order of count, and the counts add up to the number
\* of rows that have a simplified name
C6_RankByFrequency ==
  /\ ("sidebar" \in run.out /\ run.sort_option = FREQUENCY_DESC)
       => RankedByFrequency(run.song_stats, run.df)
  /\ ("fullscreen" \in run.out /\ run.sort_option_full = FREQUENCY_DESC)
       => RankedByFrequency(run.full_stats, run.df)

\* C6 witness: both rankings by frequency are shown for a store with a row
\* without simplified name and a song performed twice
C6_Witness ==
  /\ "sidebar" \in run.out /\ run.sort_option = FREQUENCY_DESC
  /\ "fullscreen" \in run.out /\ run.sort_option_full = FREQUENCY_DESC
  /\ \E i \in 1..Len(run.df.rows) : run.df.rows[i].Simplified = Absent
  /\ Len(run.full_stats) = 1
  /\ run.song_stats[1].count = 2

\* the store of the scenario: 恩典 twice, 平安夜 once without traditional name
ScenarioTable ==
  << RawRow(2023, 1, 1, EnDian, EnDian),
     RawRow(2023, 6, 1, EnDian, EnDian),
     RawRow(2022, 12, 24, PingAnYe, Absent) >>

ScenarioRanked ==
  /\ run.df.rows = [i \in 1..3 |-> WithDate(ScenarioTable, i)]
  /\ "sidebar" \in run.out
  /\ run.sort_option = FREQUENCY_DESC

NameCounts(stats) ==
  [k \in 1..Len(stats) |-> <<stats[k].name, stats[k].count>>]

\* C7 as stated: on the scenario's store, all three rows retained, the
\* ranking by frequency is [(恩典, 2)] and 平安夜 does not appear
C7_ScenarioAsStated ==
  ScenarioRanked => NameCounts(run.song_stats) = << <<EnDian, 2>> >>

\* C7 amended: on the scenario's store, all three rows retained, the
\* ranking by frequency is [(恩典, 2), (平安夜, 1)]
C7_ScenarioRanking ==
  ScenarioRanked =>
    NameCounts(run.song_stats) = << <<EnDian, 2>>, <<PingAnYe, 1>> >>

\* C7 witness: the scenario's store has been ranked by frequency
C7_Witness == ScenarioRanked /\ Len(run.song_stats) > 0


\* the pass has run a search, suggestion, detail or ranking step
StepsRun ==
  \/ run.searched
  \/ run.out \cap {"input", "suggestions", "success", "warning",
                   "sidebar", "fullscreen"} # {}
  \/ run.suggestions # {} \/ run.results # <<>>
  \/ run.song_stats # <<>> \/ run.full_stats # <<>>

C3_FailureNotCached ==
  [][(pc = "load" /\ pc' = "check" /\ cache' = cache) => cache.error = ""]_vars

\* the date y-m-d exists in the calendar
CalendarDate(y, m, d) ==
  /\ m \in 1..12
  /\ d \in 1..31
  /\ (m \in {4, 6, 9, 11} => d <= 30)
  /\ (m = 2 => d <= 29)
  /\ (m = 2 /\ d = 29 => (y % 4 = 0 /\ (y % 100 # 0 \/ y % 400 = 0)))

\* row r of a store is kept rightly for a load that read the year
KeptRightly(r, year) ==
  /\ CalendarDate(r.Year, r.Month, r.Day)
  /\ r.PerfDate = <<r.Year, r.Month, r.Day>>
  /\ r.PerfDate[1] >= year - WindowYears

\* C8: every row of the cached store, and of the store a pass works on,
\* has an existing calendar date composed of its year, month and day, in a
\* year not before the year of the load minus 5; a store from which rows
\* were dropped is the value of a load that did not fail
C8_StoreDatesValid ==
  /\ \A i \in 1..Len(cache.df.rows) : KeptRightly(cache.df.rows[i], cache.year)
  /\ \A i \in 1..Len(run.df.rows) : KeptRightly(run.df.rows[i], cache.year)
  /\ (cache.df.rows # <<>> \/ run.df.rows # <<>>) => cache.error = ""

\* C8 witness: a pass works on a store in which only the second row of
\* the source is left (the rows keep their index labels), read in 2028
C8_Witness ==
  /\ pc = "suggest"
  /\ cache.error = ""
  /\ cache.year = 2028
  /\ Len(run.df.rows) = 1
  /\ run.df.rows[1].idx = 2

\* C10: a click on a suggestion stores the song and restarts the script;
\* the pass that finds a stored song searches for it and deletes it, a pass
\* that finds none searches for the text in the box; nothing else stores a
\* song, and no song is stored from the search step to the end of a pass
C10_SelectionConsumedOnce ==
  [][/\ (pc = "suggest" /\ pc' = "load") =>
          (event.kind = "suggest" /\ session'.selected_song = event.song)
     /\ (session.selected_song = None /\ session'.selected_song # None) =>
          (pc = "suggest" /\ pc' = "load")
     /\ (pc = "consume" /\ session.selected_song # None) =>
          (run'.search_term = session.selected_song /\ pc' = "search")
     /\ (pc = "consume" /\ session.selected_song = None) =>
          (run'.search_term = session.search /\ pc' = "search")
     /\ (pc' \in {"search", "detail", "sidebar", "fullscreen", "idle"}) =>
          session'.selected_song = None
    ]_vars

\* C10 witness: a pass is about to search for the clicked song, which is
\* not the text in the box, and the key is gone
C10_Witness ==
  /\ pc = "search"
  /\ run.search_term # session.search
  /\ run.search_term \in run.suggestions
  /\ session.selected_song = None

====
